---- MODULE Spec2Model ----
(***************************************************************************)
(* FocusGroupEngine (src/engine.py): persona memory, transcript, responder *)
(* selection and the stateless entry points used by the HTTP transports.   *)
(*                                                                         *)
(* Python lists are objects: the transcript, the history a caller passes   *)
(* in and the history a call returns are references into `heap`, so that   *)
(* list.copy() and aliasing are visible.  Every engine method is an        *)
(* operator from a "world" (heap + engine fields + the outcome of the      *)
(* call) to a world; every action applies one method to the engine.        *)
(***************************************************************************)
EXTENDS Integers, Sequences, FiniteSets, TLC

VARIABLES heap, alloc, eng, hist, last, sess, sel, http, conc, prompt

vars == <<heap, alloc, eng, hist, last, sess, sel, http, conc, prompt>>

\* the state of the transports, of the concurrent requests and of the prompt
\* builders, which the engine's own operations leave alone
aux == <<http, conc, prompt>>

----------------------------------------------------------------------------
(* Bounds of the model *)

\* longest transcript an operation may start from
MaxLen == 3
\* list objects that can be alive at once
MaxObjs == 6
\* tokens in a selection reply (SpecSelect)
MaxTokens == 5
\* turns of a conversation (SpecChain)
MaxTurns == 3
\* entries of the transcript a prompt is built from (SpecPrompt)
MaxCtx == 8

----------------------------------------------------------------------------
(* Data *)

None == 0
NoAudience == "None"

\* a persona name is kept as its whitespace separated words: p.name is
\* their join, p.name.split()[0] the first of them
RECURSIVE JoinWords(_)
JoinWords(ws) ==
  IF Len(ws) = 1 THEN ws[1] ELSE ws[1] \o " " \o JoinWords(Tail(ws))

PersonaName(p) == JoinWords(p.words)

FirstName(p) == p.words[1]

\* audiences.json: audience_id -> category, personas (stored order)
Catalog ==
  [a \in {"premium_chocolate", "coffee", "twins"} |->
     IF a = "premium_chocolate"
     THEN [category |-> "premium chocolate",
           personas |-> << [id |-> 1, words |-> <<"Marcus">>],
                           [id |-> 2, words |-> <<"Jennifer", "Wu">>],
                           [id |-> 3, words |-> <<"David", "Kim">>],
                           [id |-> 4, words |-> <<"Marcus", "Stone">>] >>]
     ELSE IF a = "coffee"
     THEN [category |-> "coffee",
           personas |-> << [id |-> 5, words |-> <<"Ana", "Diaz">>],
                           [id |-> 2, words |-> <<"Ben", "Ode">>] >>]
     ELSE \* the same record stored twice
          [category |-> "",
           personas |-> << [id |-> 7, words |-> <<"Tia", "Roe">>],
                           [id |-> 7, words |-> <<"Tia", "Roe">>] >>]]

\* the audience ids callers ask with; no audience is stored as "tea"
AudienceIds == {"premium_chocolate", "coffee", "tea"}

\* list(config["audiences"].keys()): the stored ids, in the order of the file
CatalogKeys == <<"premium_chocolate", "coffee", "twins">>

PersonaIds == {1, 2, 9}

Questions == {"q1"}

\* outcome of one call of the external generation capability
Failure == "GenerationFailure"

ModeratorEntry(text) == [role |-> "moderator", text |-> text]

PersonaEntry(pid, name, text) ==
  [role |-> "persona", persona_id |-> pid, persona_name |-> name, text |-> text]

Ids(personas) == {personas[i].id : i \in 1..Len(personas)}

\* An entry of a list is a dict, modelled as the record of its keys, or a
\* value that is no dict, modelled as a record with the one key "json" that
\* no dict of a transcript has.
IsDict(msg) == "json" \notin DOMAIN msg

\* key in msg
Has(msg, key) == key \in DOMAIN msg

\* msg.get(key, default)
Get(msg, key, default) == IF key \in DOMAIN msg THEN msg[key] ELSE default

\* None as the value of persona_name, whose other values are strings
NoneName == "None"

\* self.transcript[-6:] of _select_responders, self.transcript[-8:] of
\* _generate_response
RecentWindow == 6

ContextWindow == 8

\* xs[-n:]
LastN(xs, n) == IF Len(xs) <= n THEN xs ELSE SubSeq(xs, Len(xs) - n + 1, Len(xs))

----------------------------------------------------------------------------
(* Python list objects *)

Refs == 1..MaxObjs

\* the reference a newly created list gets
NewRef(w) == CHOOSE r \in Refs \ w.alloc : \A o \in Refs \ w.alloc : r <= o

\* a new list object holding xs; its reference is NewRef(w)
NewList(w, xs) ==
  [w EXCEPT !.heap[NewRef(w)] = xs, !.alloc = @ \cup {NewRef(w)}]

\* list.append on the object r
ListAppend(w, r, x) == [w EXCEPT !.heap[r] = Append(@, x)]

\* the entries of the working transcript
Transcript(w) == w.heap[w.eng.transcript]

NoException == "none"

\* the message of an exception that the model keeps: of which audience it
\* says that it was not found, and the ids it lists as available
NoDetail == [audience_id |-> "", available |-> <<>>]

Raise(w, e) == [w EXCEPT !.exc = e]

\* responder_ids before the selection is made
NoSelection == [exc |-> NoException, ids |-> <<>>]

\* the rest of a method, F, runs unless an exception is on its way out
Then(w, F(_)) == IF w.exc # NoException THEN w ELSE F(w)

----------------------------------------------------------------------------
(* FocusGroupEngine *)

EmptyHistory(personas) == [i \in Ids(personas) |-> <<>>]

\* FocusGroupEngine.__init__: the engine fields; transcript is list object 1
NewEngine ==
  [personas |-> <<>>, audience_id |-> NoAudience, category |-> NoAudience,
   transcript |-> 1, persona_history |-> EmptyHistory(<<>>)]

\* the engine with no conversation and a fresh transcript list
ClearConversation(w) ==
  [NewList(w, <<>>) EXCEPT
     !.eng.transcript = NewRef(w),
     !.eng.persona_history = EmptyHistory(w.eng.personas)]

\* load_audience that leaves self.transcript as it was
load_audience_keep_transcript(w, audience_id) ==
  IF audience_id \notin DOMAIN Catalog
  THEN Raise(w, "ValueError")
  ELSE [w EXCEPT !.eng.audience_id = audience_id,
                 !.eng.category = Catalog[audience_id].category,
                 !.eng.personas = Catalog[audience_id].personas,
                 !.eng.persona_history =
                    EmptyHistory(Catalog[audience_id].personas)]

\* load_audience that empties the conversation before it looks the id up
load_audience_clear_first(w, audience_id) ==
  IF audience_id \notin DOMAIN Catalog
  THEN [Raise(ClearConversation(w), "ValueError") EXCEPT
          !.detail = [audience_id |-> audience_id, available |-> CatalogKeys]]
  ELSE ClearConversation(
         [w EXCEPT !.eng.audience_id = audience_id,
                   !.eng.category = Catalog[audience_id].category,
                   !.eng.personas = Catalog[audience_id].personas,
                   !.ret = Catalog[audience_id].personas])

\* f"Audience '{audience_id}' not found. Available: {available}"
AudienceNotFound(audience_id) ==
  [audience_id |-> audience_id, available |-> CatalogKeys]

\* raises for an id that is not stored; else loads the personas, empties the
\* conversation and returns self.personas
load_audience(w, audience_id) ==
  IF audience_id \notin DOMAIN Catalog
  THEN [Raise(w, "ValueError") EXCEPT !.detail = AudienceNotFound(audience_id)]
  ELSE ClearConversation(
         [w EXCEPT !.eng.audience_id = audience_id,
                   !.eng.category = Catalog[audience_id].category,
                   !.eng.personas = Catalog[audience_id].personas,
                   !.ret = Catalog[audience_id].personas])

set_personas(w, personas, category) ==
  ClearConversation([w EXCEPT !.eng.personas = personas,
                              !.eng.category = category])

reset_conversation(w) == ClearConversation(w)

\* ExtractHistory with each text put in front of the earlier ones
RECURSIVE ExtractHistoryPrepend(_, _)
ExtractHistoryPrepend(ph, entries) ==
  IF entries = <<>> THEN ph
  ELSE LET msg == Head(entries)
       IN IF msg.role = "persona" /\ msg.persona_id \in DOMAIN ph
          THEN ExtractHistoryPrepend(
                 [ph EXCEPT ![msg.persona_id] = <<msg.text>> \o @],
                 Tail(entries))
          ELSE ExtractHistoryPrepend(ph, Tail(entries))

\* the loop of _rebuild_state_from_history over entries that are dicts
RECURSIVE ExtractHistory(_, _)
ExtractHistory(ph, entries) ==
  IF entries = <<>> THEN ph
  ELSE LET msg == Head(entries)
       IN IF /\ Has(msg, "role")
             /\ msg.role = "persona"
             /\ Get(msg, "persona_id", None) \in DOMAIN ph
          THEN ExtractHistory(
                 [ph EXCEPT ![msg.persona_id] = Append(@, Get(msg, "text", ""))],
                 Tail(entries))
          ELSE ExtractHistory(ph, Tail(entries))

\* the entries the loop of _rebuild_state_from_history gets through: all of
\* them, or those before the first that is no dict, where msg.get raises
DictPrefix(entries) ==
  LET bad == {i \in 1..Len(entries) : ~IsDict(entries[i])}
  IN IF bad = {} THEN entries
     ELSE SubSeq(entries, 1, (CHOOSE i \in bad : \A o \in bad : i <= o) - 1)

\* _rebuild_state_from_history with self.transcript = history (no copy)
rebuild_state_from_history_alias(w, history) ==
  [w EXCEPT
     !.eng.transcript = history,
     !.eng.persona_history =
        ExtractHistory(EmptyHistory(w.eng.personas), w.heap[history])]

\* _rebuild_state_from_history that extracts onto the memory the engine has
rebuild_state_from_history_no_reset(w, history) ==
  [NewList(w, w.heap[history]) EXCEPT
     !.eng.transcript = NewRef(w),
     !.eng.persona_history = ExtractHistory(@, w.heap[history])]

\* history is the reference of the caller's list
rebuild_state_from_history(w, history) ==
  LET done == DictPrefix(w.heap[history])
      w1 == [NewList(w, w.heap[history]) EXCEPT
               !.eng.transcript = NewRef(w),
               !.eng.persona_history =
                  ExtractHistory(EmptyHistory(w.eng.personas), done)]
  IN IF done = w.heap[history] THEN w1 ELSE Raise(w1, "AttributeError")

\* next((p for p in self.personas if p.id == pid), None): its index, 0 for None
FindPersona(personas, pid) ==
  IF pid \in Ids(personas)
  THEN CHOOSE i \in 1..Len(personas) :
         /\ personas[i].id = pid
         /\ \A j \in 1..(i - 1) : personas[j].id # pid
  ELSE 0

\* the persona that lookup finds for an id some persona has
PersonaOfId(personas, pid) == personas[FindPersona(personas, pid)]

----------------------------------------------------------------------------
(* _select_responders: the text of the selection reply is a sequence of    *)
(* tokens; a token is a bracket, a comma, a JSON string, number, null or    *)
(* object, or a word of prose.                                              *)

Tok(k, v) == [k |-> k, v |-> v]

LB == Tok("lb", "")
RB == Tok("rb", "")
Comma == Tok("comma", "")
Str(name) == Tok("str", name)
Num == Tok("num", "")
Null == Tok("null", "")
Obj == Tok("obj", "")
Word == Tok("word", "")

JsonValueKinds == {"str", "num", "null", "obj"}

\* re.search(r'\[.*?\]', text, re.DOTALL): the leftmost "[" that has a "]"
\* after it, up to the first such "]"; <<>> when there is no match
RegexMatch(text) ==
  LET starts == {i \in 1..Len(text) :
                   /\ text[i].k = "lb"
                   /\ \E j \in (i + 1)..Len(text) : text[j].k = "rb"}
  IN IF starts = {} THEN <<>>
     ELSE LET s == CHOOSE i \in starts : \A o \in starts : i <= o
              e == CHOOSE j \in (s + 1)..Len(text) :
                     /\ text[j].k = "rb"
                     /\ \A o \in (s + 1)..(j - 1) : text[o].k # "rb"
          IN SubSeq(text, s, e)

\* json.loads on a match "[" ... "]": whether it parses
JsonValid(match) ==
  LET inner == SubSeq(match, 2, Len(match) - 1)
  IN \/ inner = <<>>
     \/ /\ Len(inner) % 2 = 1
        /\ \A i \in 1..Len(inner) :
             IF i % 2 = 1 THEN inner[i].k \in JsonValueKinds
                          ELSE inner[i].k = "comma"

\* json.loads on a match that parses: the elements of the list
JsonLoads(match) ==
  LET inner == SubSeq(match, 2, Len(match) - 1)
  IN [i \in 1..((Len(inner) + 1) \div 2) |-> inner[2 * i - 1]]

\* the keys of name_to_id
NameKeys(personas) ==
  {PersonaName(personas[i]) : i \in 1..Len(personas)}
    \cup {FirstName(personas[i]) : i \in 1..Len(personas)}

\* name_to_id where the first persona to write a key keeps it
NameToIdFirst(personas) ==
  [n \in NameKeys(personas) |->
     LET writers == {i \in 1..Len(personas) :
                       PersonaName(personas[i]) = n \/ FirstName(personas[i]) = n}
         firstw == CHOOSE i \in writers : \A o \in writers : i <= o
     IN personas[firstw].id]

\* name_to_id: a later persona overwrites the key of an earlier one
NameToId(personas) ==
  [n \in NameKeys(personas) |->
     LET writers == {i \in 1..Len(personas) :
                       PersonaName(personas[i]) = n \/ FirstName(personas[i]) = n}
         lastw == CHOOSE i \in writers : \A o \in writers : o <= i
     IN personas[lastw].id]

\* [name_to_id[n] for n in names if n in name_to_id], all n hashable
RECURSIVE MapNames(_, _)
MapNames(names, name_to_id) ==
  IF names = <<>> THEN <<>>
  ELSE LET n == Head(names)
           rest == MapNames(Tail(names), name_to_id)
       IN IF n.k = "str" /\ n.v \in DOMAIN name_to_id
          THEN <<name_to_id[n.v]>> \o rest
          ELSE rest

\* [p.id for p in self.personas[:3]]
Fallback(personas) ==
  [i \in 1..(IF Len(personas) < 3 THEN Len(personas) ELSE 3) |-> personas[i].id]

\* the part of _select_responders after the selection call returned text:
\* the ids returned, or the exception raised
select_responders(personas, text) ==
  LET match == RegexMatch(text)
  IN IF match = <<>> \/ ~JsonValid(match)
     THEN [exc |-> NoException, ids |-> Fallback(personas)]
     ELSE LET names == JsonLoads(match)
          IN IF \E i \in 1..Len(names) : names[i].k = "obj"
             THEN \* n in name_to_id with n a dict: unhashable type
                  [exc |-> "TypeError", ids |-> <<>>]
             ELSE LET selected == MapNames(names, NameToId(personas))
                  IN IF selected # <<>>
                     THEN [exc |-> NoException, ids |-> selected]
                     ELSE [exc |-> NoException, ids |-> Fallback(personas)]

----------------------------------------------------------------------------
(* ask, ask_persona and the stateless entry points.  The external          *)
(* generation capability is an input: selcall is the outcome of the         *)
(* selection call, gen the outcomes of the reply calls, in call order.      *)

Response(pid, name, text) ==
  [persona_id |-> pid, persona_name |-> name, text |-> text]

\* recent_speakers of _select_responders: the persona_name of every persona
\* entry of the window, in transcript order
RECURSIVE SpeakerNames(_)
SpeakerNames(window) ==
  IF window = <<>> THEN <<>>
  ELSE (IF Head(window).role = "persona"
        THEN <<Head(window).persona_name>> ELSE <<>>) \o SpeakerNames(Tail(window))

\* ', '.join(names)
RECURSIVE JoinNames(_)
JoinNames(names) ==
  IF names = <<>> THEN ""
  ELSE IF Len(names) = 1 THEN names[1]
  ELSE names[1] \o ", " \o JoinNames(Tail(names))

\* the "Recent speakers" line of the selection prompt
RecentSpeakersLine(names) == IF names = <<>> THEN "None yet" ELSE JoinNames(names)

\* what building the selection prompt reads of the transcript: the recent
\* speakers, or the exception of msg["role"], msg["persona_name"] on an entry
\* without the key, or of join on a name that is None
recent_speakers(transcript) ==
  LET window == LastN(transcript, RecentWindow)
  IN IF \E i \in 1..Len(window) :
          \/ ~Has(window[i], "role")
          \/ window[i].role = "persona" /\ ~Has(window[i], "persona_name")
     THEN [exc |-> "KeyError", names |-> <<>>]
     ELSE IF \E i \in 1..Len(window) :
               window[i].role = "persona" /\ window[i].persona_name = NoneName
          THEN [exc |-> "TypeError", names |-> <<>>]
          ELSE [exc |-> NoException, names |-> SpeakerNames(window)]

\* recent_context of _generate_response over a window of entries that have
\* the keys it reads
RECURSIVE RecentContext(_)
RecentContext(window) ==
  IF window = <<>> THEN ""
  ELSE (IF Head(window).role = "moderator"
        THEN "\nModerator: " \o Head(window).text
        ELSE IF Head(window).role = "persona"
        THEN "\n" \o Head(window).persona_name \o ": " \o Head(window).text
        ELSE "") \o RecentContext(Tail(window))

\* msg["role"], msg['text'] or msg['persona_name'] on an entry without the key
ContextKeyError(window) ==
  \E i \in 1..Len(window) :
    \/ ~Has(window[i], "role")
    \/ window[i].role \in {"moderator", "persona"} /\ ~Has(window[i], "text")
    \/ window[i].role = "persona" /\ ~Has(window[i], "persona_name")

\* user_message of _generate_response
UserMessage(recent_context, question) ==
  IF recent_context # ""
  THEN "[Recent conversation]" \o recent_context
         \o "\n\n---\n\nModerator's current question: " \o question
  ELSE question

\* RecordReply without the append to persona_history
RecordReplyNoMemory(w, pid, persona, text) ==
  [ListAppend(w, w.eng.transcript,
              PersonaEntry(pid, PersonaName(persona), text)) EXCEPT
     !.ret = Append(@, Response(pid, PersonaName(persona), text))]

\* the body of the loop of ask / the tail of ask_persona for one persona
\* whose reply call returned text
RecordReply(w, pid, persona, text) ==
  IF pid \notin DOMAIN w.eng.persona_history
  THEN Raise(w, "KeyError")
  ELSE [ListAppend(w, w.eng.transcript,
                   PersonaEntry(pid, PersonaName(persona), text)) EXCEPT
          !.eng.persona_history[pid] = Append(@, text),
          !.ret = Append(@, Response(pid, PersonaName(persona), text))]

\* _generate_response that renders the whole transcript, not its last entries
generate_response_whole_transcript(w, outcome) ==
  IF ContextKeyError(Transcript(w))
  THEN Raise(w, "KeyError")
  ELSE IF outcome = Failure
  THEN Raise([w EXCEPT !.ngen = @ + 1,
                       !.msgs = Append(@, UserMessage(RecentContext(Transcript(w)),
                                                      w.question))],
             Failure)
  ELSE [w EXCEPT !.ngen = @ + 1,
                 !.msgs = Append(@, UserMessage(RecentContext(Transcript(w)),
                                                w.question))]

\* _generate_response: one call of the generation capability, which
\* returns the reply text or fails
generate_response(w, outcome) ==
  IF ContextKeyError(LastN(Transcript(w), ContextWindow))
  THEN Raise(w, "KeyError")
  ELSE IF outcome = Failure
  THEN Raise([w EXCEPT !.ngen = @ + 1,
                       !.msgs = Append(@, UserMessage(
                                  RecentContext(LastN(Transcript(w), ContextWindow)),
                                  w.question))],
             Failure)
  ELSE [w EXCEPT !.ngen = @ + 1,
                 !.msgs = Append(@, UserMessage(
                            RecentContext(LastN(Transcript(w), ContextWindow)),
                            w.question))]

\* AskLoop that still makes the reply calls of the remaining responders
\* after one has failed, and raises the failure afterwards
RECURSIVE AskLoopCallsRest(_, _, _)
AskLoopCallsRest(w, ids, gen) ==
  IF ids = <<>> THEN w
  ELSE IF FindPersona(w.eng.personas, Head(ids)) = 0
       THEN AskLoopCallsRest(w, Tail(ids), gen)
       ELSE IF Head(gen) = Failure
            THEN Raise([w EXCEPT !.ngen = @ + Cardinality(
                          {i \in 1..Len(ids) :
                             FindPersona(w.eng.personas, ids[i]) # 0})],
                       Failure)
            ELSE Then(RecordReply(generate_response(w, Head(gen)), Head(ids),
                                  PersonaOfId(w.eng.personas, Head(ids)),
                                  Head(gen)),
                      LAMBDA w2 : AskLoopCallsRest(w2, Tail(ids), Tail(gen)))

\* for pid in responder_ids: ...
RECURSIVE AskLoop(_, _, _)
AskLoop(w, ids, gen) ==
  IF ids = <<>> THEN w
  ELSE IF FindPersona(w.eng.personas, Head(ids)) = 0
       THEN AskLoop(w, Tail(ids), gen)
       ELSE Then(Then(generate_response(w, Head(gen)),
                      LAMBDA w1 : RecordReply(w1, Head(ids),
                                    PersonaOfId(w1.eng.personas, Head(ids)),
                                    Head(gen))),
                 LAMBDA w2 : AskLoop(w2, Tail(ids), Tail(gen)))

\* ask once the question is recorded: the selection, then the replies
SelectAndReply(w, selcall, gen) ==
  LET speakers == recent_speakers(Transcript(w))
  IN IF speakers.exc # NoException THEN Raise(w, speakers.exc)
     ELSE IF ~selcall.ok
     THEN Raise([w EXCEPT !.nsel = @ + 1, !.recent = speakers.names], Failure)
     ELSE Then([w EXCEPT !.nsel = @ + 1, !.recent = speakers.names,
                         !.sel = select_responders(w.eng.personas, selcall.text)],
               LAMBDA w1 : IF w1.sel.exc # NoException THEN Raise(w1, w1.sel.exc)
                           ELSE AskLoop([w1 EXCEPT !.ret = <<>>], w1.sel.ids, gen))

\* ask without the moderator entry
ask_no_moderator(w, question, selcall, gen) ==
  IF w.eng.personas = <<>>
  THEN Raise(w, "ValueError")
  ELSE SelectAndReply([w EXCEPT !.question = question], selcall, gen)

ask(w, question, selcall, gen) ==
  IF w.eng.personas = <<>>
  THEN Raise(w, "ValueError")
  ELSE SelectAndReply([ListAppend(w, w.eng.transcript, ModeratorEntry(question))
                         EXCEPT !.question = question],
                      selcall, gen)

\* the moderator text of a direct ask without the addressee tag
DirectedQuestionUntagged(name, question) == question

\* f"[To {persona.name}] {question}"
DirectedQuestion(name, question) == "[To " \o name \o "] " \o question

\* ask_persona that records the question before it looks the persona up
ask_persona_record_first(w, persona_id, question, gen) ==
  IF FindPersona(w.eng.personas, persona_id) = 0
  THEN Raise(ListAppend(w, w.eng.transcript, ModeratorEntry(question)), "ValueError")
  ELSE Then(generate_response(
              [ListAppend(w, w.eng.transcript, ModeratorEntry(question))
                 EXCEPT !.question = question, !.ret = <<>>],
              Head(gen)),
            LAMBDA w2 : RecordReply(w2, persona_id,
                          PersonaOfId(w2.eng.personas, persona_id), Head(gen)))

ask_persona(w, persona_id, question, gen) ==
  IF FindPersona(w.eng.personas, persona_id) = 0
  THEN Raise(w, "ValueError")
  ELSE Then(generate_response(
              [ListAppend(w, w.eng.transcript,
                 ModeratorEntry(DirectedQuestion(
                   PersonaName(PersonaOfId(w.eng.personas, persona_id)), question)))
                 EXCEPT !.question = question, !.ret = <<>>],
              Head(gen)),
            LAMBDA w2 : RecordReply(w2, persona_id,
                          PersonaOfId(w2.eng.personas, persona_id), Head(gen)))

\* `if history:` of the stateless entry points (None and [] are false)
HistoryGiven(w, history) == history # None /\ w.heap[history] # <<>>

\* load_audience, then the rebuild when a history is given
Prepare(w, audience_id, history) ==
  Then(load_audience(w, audience_id),
       LAMBDA w1 : IF HistoryGiven(w1, history)
                   THEN rebuild_state_from_history(w1, history)
                   ELSE w1)

\* "history": self.transcript.copy()
ReturnHistory(w) == [NewList(w, Transcript(w)) EXCEPT !.rhist = NewRef(w)]

ask_stateless(w, question, audience_id, history, selcall, gen) ==
  Then(Then(Prepare(w, audience_id, history),
            LAMBDA w1 : ask(w1, question, selcall, gen)),
       LAMBDA w2 : ReturnHistory(w2))

ask_persona_stateless(w, persona_id, question, audience_id, history, gen) ==
  Then(Then(Prepare(w, audience_id, history),
            LAMBDA w1 : ask_persona(w1, persona_id, question, gen)),
       LAMBDA w2 : ReturnHistory(w2))

----------------------------------------------------------------------------
(* The state: the engine `eng` and the list objects `heap`; `hist` is the   *)
(* list the caller holds as its conversation history (None when it holds    *)
(* none) and `last` the last call made on the engine with its outcome.      *)

World ==
  [heap |-> heap, alloc |-> alloc, eng |-> eng, exc |-> NoException,
   ngen |-> 0, nsel |-> 0, ret |-> <<>>, rhist |-> None,
   sel |-> NoSelection,
   question |-> "", recent |-> <<>>, msgs |-> <<>>, detail |-> NoDetail]

NoSelCall == [ok |-> TRUE, text |-> <<>>]

Call(op, q, pid, aid, h, sc, g, w) ==
  [op |-> op, question |-> q, persona_id |-> pid, audience_id |-> aid,
   history |-> h, selcall |-> sc, gen |-> g,
   exc |-> w.exc, detail |-> w.detail, ngen |-> w.ngen, nsel |-> w.nsel,
   ret |-> IF w.exc = NoException THEN w.ret ELSE <<>>,
   rhist |-> w.rhist]

NoCall ==
  [op |-> "init", question |-> "", persona_id |-> None, audience_id |-> NoAudience,
   history |-> None, selcall |-> NoSelCall, gen |-> <<>>,
   exc |-> NoException, detail |-> NoDetail, ngen |-> 0, nsel |-> 0, ret |-> <<>>,
   rhist |-> None]

\* outcomes of the selection call
SelCalls ==
  { [ok |-> FALSE, text |-> <<>>],
    [ok |-> TRUE, text |-> <<Word>>],
    [ok |-> TRUE, text |-> <<LB, Str("Jennifer"), Comma, Str("Marcus"), RB>>],
    [ok |-> TRUE, text |-> <<LB, Obj, RB>>] }

\* texts the reply calls of one turn return, call by call
ReplyScript == <<"r1", "r2", "r3", "r4">>

\* the reply calls of one turn that makes at most n of them: n replies, or
\* fewer replies and then a failure
GenRuns(n) ==
  {SubSeq(ReplyScript, 1, n)}
    \cup {Append(SubSeq(ReplyScript, 1, k), Failure) : k \in 0..(n - 1)}

\* the reply calls ask makes when none fails
ReplyCalls(personas, selcall) ==
  IF personas = <<>> \/ ~selcall.ok THEN 0
  ELSE Len(select_responders(personas, selcall.text).ids)

\* histories a client sends that no call returned
ClientHistories ==
  { <<>>,
    <<ModeratorEntry("q1"), PersonaEntry(1, "Marcus", "r1")>>,
    <<PersonaEntry(9, "Zoe", "r1"), PersonaEntry(2, "Jennifer Wu", "r2"),
      PersonaEntry(2, "Jennifer Wu", "r1")>> }

PersonaLists == {<<>>} \cup {Catalog[a].personas : a \in DOMAIN Catalog}

\* The lists still referenced after a call are the working transcript, the
\* caller's history h and the returned history; the rest is garbage.  The
\* live objects are renumbered (transcript 1, caller's history 2, returned
\* history 3), which keeps the aliasing between them.
Renumber(w, h, r) ==
  IF r = None THEN None
  ELSE IF r = w.eng.transcript THEN 1
  ELSE IF r = h THEN 2
  ELSE 3

Commit(w, h, call) ==
  LET live == {w.eng.transcript, h, w.rhist} \ {None}
  IN /\ eng' = [w.eng EXCEPT !.transcript = 1]
     /\ hist' = Renumber(w, h, h)
     /\ last' = [call EXCEPT !.rhist = Renumber(w, h, w.rhist),
                             !.history = IF @ = None THEN None ELSE Renumber(w, h, h)]
     /\ alloc' = {Renumber(w, h, r) : r \in live}
     /\ heap' = [n \in Refs |->
                  IF \E r \in live : Renumber(w, h, r) = n
                  THEN w.heap[CHOOSE r \in live : Renumber(w, h, r) = n]
                  ELSE <<>>]

\* the second engine of SpecChain, which runs a conversation as one session
NoSession ==
  [heap |-> [r \in Refs |-> <<>>], alloc |-> {1}, eng |-> NewEngine]

\* the run of _select_responders of SpecSelect
NoSelectionRun ==
  [stage |-> "idle", personas |-> <<>>, text |-> <<>>, result |-> NoSelection]

\* a new engine; the caller holds no history, or one it built itself
\* no request handled, no concurrent request, no prompt built
NoRequest == [stage |-> "idle"]

NoRequests == <<>>

NoPrompt == [stage |-> "idle"]

AuxIdle ==
  /\ http = NoRequest
  /\ conc = NoRequests
  /\ prompt = NoPrompt

Init ==
  /\ eng = NewEngine
  /\ last = NoCall
  /\ sess = NoSession
  /\ sel = NoSelectionRun
  /\ AuxIdle
  /\ \/ /\ hist = None
        /\ alloc = {1}
        /\ heap = [r \in Refs |-> <<>>]
     \/ \E H \in ClientHistories :
          /\ hist = 2
          /\ alloc = {1, 2}
          /\ heap = [r \in Refs |-> IF r = 2 THEN H ELSE <<>>]

LoadAudience ==
  /\ \E a \in AudienceIds \cup DOMAIN Catalog :
       \E w \in {load_audience(World, a)} :
         Commit(w, hist, Call("load_audience", "", None, a, None, NoSelCall, <<>>, w))
  /\ UNCHANGED <<sess, sel, aux>>

SetPersonas ==
  /\ \E ps \in PersonaLists :
       \E w \in {set_personas(World, ps, "")} :
         Commit(w, hist, Call("set_personas", "", None, NoAudience, None, NoSelCall, <<>>, w))
  /\ UNCHANGED <<sess, sel, aux>>

ResetConversation ==
  /\ \E w \in {reset_conversation(World)} :
       Commit(w, hist, Call("reset_conversation", "", None, NoAudience, None, NoSelCall, <<>>, w))
  /\ UNCHANGED <<sess, sel, aux>>

\* engine._rebuild_state_from_history(history) on the caller's list
Rebuild ==
  /\ hist # None
  /\ \E w \in {rebuild_state_from_history(World, hist)} :
       Commit(w, hist, Call("rebuild", "", None, NoAudience, hist, NoSelCall, <<>>, w))
  /\ UNCHANGED <<sess, sel, aux>>

Ask ==
  /\ Len(heap[eng.transcript]) <= MaxLen
  /\ \E q \in Questions, sc \in SelCalls :
       \E g \in GenRuns(ReplyCalls(eng.personas, sc)) :
         \E w \in {ask(World, q, sc, g)} :
           Commit(w, hist, Call("ask", q, None, NoAudience, None, sc, g, w))
  /\ UNCHANGED <<sess, sel, aux>>

AskPersona ==
  /\ Len(heap[eng.transcript]) <= MaxLen
  /\ \E q \in Questions, pid \in PersonaIds, g \in GenRuns(1) :
       \E w \in {ask_persona(World, pid, q, g)} :
         Commit(w, hist, Call("ask_persona", q, pid, NoAudience, None, NoSelCall, g, w))
  /\ UNCHANGED <<sess, sel, aux>>

\* the history argument of a stateless call: None or the caller's list
HistoryArgs == {None, hist}

AskStateless ==
  /\ \E q \in Questions, a \in AudienceIds, h \in HistoryArgs, sc \in SelCalls :
       /\ h # None => Len(heap[h]) <= MaxLen
       /\ \E g \in GenRuns(IF a \in DOMAIN Catalog
                           THEN ReplyCalls(Catalog[a].personas, sc) ELSE 0) :
            \E w \in {ask_stateless(World, q, a, h, sc, g)} :
              Commit(w, hist, Call("ask_stateless", q, None, a, h, sc, g, w))
  /\ UNCHANGED <<sess, sel, aux>>

AskPersonaStateless ==
  /\ \E q \in Questions, a \in AudienceIds, h \in HistoryArgs,
        pid \in PersonaIds, g \in GenRuns(1) :
       /\ h # None => Len(heap[h]) <= MaxLen
       /\ \E w \in {ask_persona_stateless(World, pid, q, a, h, g)} :
            Commit(w, hist, Call("ask_persona_stateless", q, pid, a, h, NoSelCall, g, w))
  /\ UNCHANGED <<sess, sel, aux>>

\* history = result["history"]: the caller keeps the returned list as its
\* history and drops the result
ClientKeepsHistory ==
  /\ last.rhist # None
  /\ Len(heap[last.rhist]) <= MaxLen
  /\ \E w \in {[World EXCEPT !.rhist = None]} :
       Commit(w, last.rhist, [NoCall EXCEPT !.op = "keep"])
  /\ UNCHANGED <<sess, sel, aux>>

\* one engine used as a session (test_engine.py)
Next ==
  \/ LoadAudience
  \/ SetPersonas
  \/ ResetConversation
  \/ Rebuild
  \/ Ask
  \/ AskPersona

Spec == Init /\ [][Next]_vars

\* one engine used through its stateless entry points (test_stateless.py)
NextStateless ==
  \/ AskStateless
  \/ AskPersonaStateless
  \/ ClientKeepsHistory
  \/ Rebuild

SpecStateless == Init /\ [][NextStateless]_vars

----------------------------------------------------------------------------
(* _select_responders on every short selection reply *)

Tokens == {LB, RB, Comma, Str("Marcus"), Str("Jennifer Wu"), Str("Zoe"), Num, Obj}

Texts == UNION {[1..n -> Tokens] : n \in 0..MaxTokens}

InitSelect ==
  /\ eng = NewEngine
  /\ AuxIdle
  /\ last = NoCall
  /\ sess = NoSession
  /\ hist = None
  /\ alloc = {1}
  /\ heap = [r \in Refs |-> <<>>]
  /\ \E a \in DOMAIN Catalog, t \in Texts :
       sel = [stage |-> "reply", personas |-> Catalog[a].personas, text |-> t,
              result |-> NoSelection]

\* the selection call returned sel.text
SelectResponders ==
  /\ sel.stage = "reply"
  /\ sel' = [sel EXCEPT !.stage = "done",
                        !.result = select_responders(sel.personas, sel.text)]
  /\ UNCHANGED <<heap, alloc, eng, hist, last, sess, aux>>

NextSelect == SelectResponders

SpecSelect == InitSelect /\ [][NextSelect]_vars

----------------------------------------------------------------------------
(* One conversation run twice: as a chain of stateless calls on `eng`, the  *)
(* caller passing each returned history to the next call, and as a session  *)
(* on the second engine `sess`, with the same replies of the generation     *)
(* capability.                                                              *)

SessWorld ==
  [heap |-> sess.heap, alloc |-> sess.alloc, eng |-> sess.eng,
   exc |-> NoException, ngen |-> 0, nsel |-> 0, ret |-> <<>>, rhist |-> None,
   sel |-> NoSelection,
   question |-> "", recent |-> <<>>, msgs |-> <<>>, detail |-> NoDetail]

SessionAfter(v) == [heap |-> v.heap, alloc |-> v.alloc, eng |-> v.eng]

\* turns of the session so far: a turn records one moderator entry
Turns == Len(SelectSeq(sess.heap[sess.eng.transcript],
                       LAMBDA e : e.role = "moderator"))

\* selection replies after which ask raises nothing
GoodSelCalls == {sc \in SelCalls : sc.ok /\ \A i \in 1..Len(sc.text) : sc.text[i] # Obj}

InitChain ==
  /\ eng = NewEngine
  /\ AuxIdle
  /\ last = NoCall
  /\ sel = NoSelectionRun
  /\ hist = None
  /\ alloc = {1}
  /\ heap = [r \in Refs |-> <<>>]
  /\ \E a \in DOMAIN Catalog :
       sess = SessionAfter(load_audience(
                [heap |-> [r \in Refs |-> <<>>], alloc |-> {1}, eng |-> NewEngine,
                 exc |-> NoException, ngen |-> 0, nsel |-> 0, ret |-> <<>>,
                 rhist |-> None, sel |-> NoSelection,
                 question |-> "", recent |-> <<>>, msgs |-> <<>>, detail |-> NoDetail], a))

\* a group ask: engine.ask_stateless(q, a, history), history = result["history"]
\* and engine.ask(q) on the session
TurnGroup ==
  /\ Turns < MaxTurns
  /\ \E q \in Questions, sc \in GoodSelCalls :
       \E g \in {SubSeq(ReplyScript, 1, ReplyCalls(sess.eng.personas, sc))} :
         \E w \in {ask_stateless(World, q, sess.eng.audience_id, hist, sc, g)},
            v \in {ask(SessWorld, q, sc, g)} :
           /\ Commit(w, w.rhist,
                     Call("ask_stateless", q, None, sess.eng.audience_id, hist, sc, g, w))
           /\ sess' = SessionAfter(v)
  /\ UNCHANGED <<sel, aux>>

\* a direct ask, on both engines; a call that raises returns no history and
\* the caller keeps the one it has
TurnDirect ==
  /\ Turns < MaxTurns
  /\ \E q \in Questions, pid \in PersonaIds :
       \E g \in {SubSeq(ReplyScript, 1, 1)} :
         \E w \in {ask_persona_stateless(World, pid, q, sess.eng.audience_id, hist, g)},
            v \in {ask_persona(SessWorld, pid, q, g)} :
           /\ Commit(w, IF w.exc = NoException THEN w.rhist ELSE hist,
                     Call("ask_persona_stateless", q, pid, sess.eng.audience_id,
                          hist, NoSelCall, g, w))
           /\ sess' = SessionAfter(v)
  /\ UNCHANGED <<sel, aux>>

NextChain == TurnGroup \/ TurnDirect

SpecChain == InitChain /\ [][NextChain]_vars

----------------------------------------------------------------------------
(* The transports: api.py (FastAPI, the body validated against AskRequest   *)
(* before the endpoint runs) and api/index.py (BaseHTTPRequestHandler, the  *)
(* body read with json.loads).  A body is a JSON object; the values of its  *)
(* "question" and "history" keys are JSON values.                           *)

\* the answer of handler.do_POST (api/index.py) to a group ask that ended as
\* the call did
GroupAskAnswer(call) ==
  IF call.exc = NoException
  THEN [status |-> 200, history |-> call.rhist]
  ELSE [status |-> 500, history |-> None]

JAbsent == [json |-> "absent"]
JNull == [json |-> "null"]
JString(str) == [json |-> "string", s |-> str]
JNumber(num) == [json |-> "number", n |-> num]
JObject(fields) == [json |-> "object", fields |-> fields]
\* the items are entries as the engine holds them (see IsDict)
JList(items) == [json |-> "list", items |-> items]

\* bool(value) of the value json.loads gives
Truthy(j) ==
  CASE j.json = "string" -> j.s # ""
    [] j.json = "number" -> j.n # 0
    [] j.json = "object" -> DOMAIN j.fields # {}
    [] j.json = "list" -> j.items # <<>>
    [] OTHER -> FALSE

\* the question a handler passes to the engine; None is written NoneName
QuestionText(q) == IF q.json = "string" THEN q.s ELSE NoneName

\* engine = FocusGroupEngine() of one request, next to the list its body holds
RequestWorld(history) ==
  [heap |-> [r \in Refs |->
               IF r = 2 /\ history.json = "list" THEN history.items ELSE <<>>],
   alloc |-> IF history.json = "list" THEN {1, 2} ELSE {1},
   eng |-> NewEngine, exc |-> NoException,
   ngen |-> 0, nsel |-> 0, ret |-> <<>>, rhist |-> None,
   sel |-> NoSelection,
   question |-> "", recent |-> <<>>, msgs |-> <<>>, detail |-> NoDetail]

\* engine.ask_stateless / engine.ask_persona_stateless with the history a
\* handler passes.  A history that is no list and is true has no copy() (str,
\* int) or yields its keys, which have no get() (dict): AttributeError in
\* _rebuild_state_from_history, after load_audience.
EngineCall(route, pid, question, audience_id, history, selcall, gen) ==
  IF history.json \in {"list", "null"} \/ ~Truthy(history)
  THEN IF route = "group"
       THEN ask_stateless(RequestWorld(history), question, audience_id,
                          IF history.json = "list" THEN 2 ELSE None, selcall, gen)
       ELSE ask_persona_stateless(RequestWorld(history), pid, question, audience_id,
                                  IF history.json = "list" THEN 2 ELSE None, gen)
  ELSE Raise(load_audience(RequestWorld(history), audience_id), "AttributeError")

\* what a request came to: the status of the answer, the calls of the
\* generation capability made for it, and the history in the answer
Answer(status, w) ==
  [status |-> status, nsel |-> w.nsel, ngen |-> w.ngen,
   returned |-> IF status = 200 THEN w.heap[w.rhist] ELSE <<>>]

\* an answer sent before the engine is created
Refuse(status) == [status |-> status, nsel |-> 0, ngen |-> 0, returned |-> <<>>]

\* `if not question` of api/index.py without the test
QuestionMissingNever(q) == FALSE

\* question = request_data.get("question"); if not question
QuestionMissing(q) == ~Truthy(q)

\* request_data.get("history", [])
IndexHistory(history) == IF history = JAbsent THEN JList(<<>>) ELSE history

\* api/index.py, POST /audiences/{audience_id}/ask
IndexAskGroup(req, selcall, gen) ==
  IF req.audience_id \notin DOMAIN Catalog THEN Refuse(404)
  ELSE IF QuestionMissing(req.question) THEN Refuse(400)
  ELSE LET w == EngineCall("group", None, QuestionText(req.question),
                           req.audience_id, IndexHistory(req.history), selcall, gen)
       IN Answer(GroupAskAnswer(w).status, w)

\* api/index.py, POST /audiences/{audience_id}/ask/{persona_id}; an exception
\* that is no ValueError leaves do_POST and the request gets a server error
IndexAskPersona(req, gen) ==
  IF req.audience_id \notin DOMAIN Catalog THEN Refuse(404)
  ELSE IF QuestionMissing(req.question) THEN Refuse(400)
  ELSE LET w == EngineCall("direct", req.persona_id, QuestionText(req.question),
                           req.audience_id, IndexHistory(req.history), NoSelCall, gen)
       IN IF w.exc = NoException THEN Answer(200, w)
          ELSE IF w.exc = "ValueError" THEN Answer(404, w)
          ELSE Answer(500, w)

\* Message: role and text are required strings, persona_id and persona_name
\* optional
MessageValid(item) == IsDict(item) /\ Has(item, "role") /\ Has(item, "text")

\* AskRequest: question a required string, history an optional list of Message
AskRequestValid(req) ==
  /\ req.question.json = "string"
  /\ \/ req.history.json \in {"absent", "null"}
     \/ /\ req.history.json = "list"
        /\ \A i \in 1..Len(req.history.items) : MessageValid(req.history.items[i])

\* m.model_dump(): every field of Message, None for an optional one not given
ModelDump(item) ==
  [role |-> item.role, text |-> item.text,
   persona_id |-> Get(item, "persona_id", None),
   persona_name |-> Get(item, "persona_name", NoneName)]

\* messages_to_dicts(request.history) if request.history else None
ApiHistory(history) ==
  IF history.json = "list" /\ history.items # <<>>
  THEN JList([i \in 1..Len(history.items) |-> ModelDump(history.items[i])])
  ELSE JNull

\* api.py, ask_group: nothing is caught, an exception of the engine is a
\* server error
ApiAskGroup(req, selcall, gen) ==
  IF ~AskRequestValid(req) THEN Refuse(422)
  ELSE IF req.audience_id \notin DOMAIN Catalog THEN Refuse(404)
  ELSE LET w == EngineCall("group", None, QuestionText(req.question),
                           req.audience_id, ApiHistory(req.history), selcall, gen)
       IN IF w.exc = NoException THEN Answer(200, w) ELSE Answer(500, w)

\* api.py, ask_persona
ApiAskPersona(req, gen) ==
  IF ~AskRequestValid(req) THEN Refuse(422)
  ELSE IF req.audience_id \notin DOMAIN Catalog THEN Refuse(404)
  ELSE LET w == EngineCall("direct", req.persona_id, QuestionText(req.question),
                           req.audience_id, ApiHistory(req.history), NoSelCall, gen)
       IN IF w.exc = NoException THEN Answer(200, w)
          ELSE IF w.exc = "ValueError" THEN Answer(404, w)
          ELSE Answer(500, w)

\* the "question" values of the bodies sent
QuestionBodies == {JAbsent, JNull, JString(""), JString("q1")}

\* the "history" values of the bodies sent: none, ones that are no list, and
\* lists: empty, of transcript shape, with an entry that is no record, with a
\* persona entry that lacks role, persona_name or text
HistoryBodies ==
  { JAbsent, JNull, JString("abc"), JString(""), JNumber(5), JObject([a |-> 1]),
    JList(<<>>),
    JList(<<ModeratorEntry("q1"), PersonaEntry(1, "Marcus", "r1")>>),
    JList(<<JNumber(5)>>),
    JList(<<ModeratorEntry("q1"),
            [persona_id |-> 1, persona_name |-> "Marcus", text |-> "r1"]>>),
    JList(<<ModeratorEntry("q1"),
            [role |-> "persona", persona_id |-> 1, text |-> "r1"]>>),
    JList(<<ModeratorEntry("q1"),
            [role |-> "persona", persona_id |-> 1, persona_name |-> "Marcus"]>>) }

\* the variables of the engine model, which a transport does not touch: it
\* makes an engine of its own for every request
engvars == <<heap, alloc, eng, hist, last, sess, sel>>

InitTransport ==
  /\ eng = NewEngine
  /\ last = NoCall
  /\ sess = NoSession
  /\ sel = NoSelectionRun
  /\ hist = None
  /\ alloc = {1}
  /\ heap = [r \in Refs |-> <<>>]
  /\ AuxIdle

Handled(transport, route, req, selcall, gen, answer) ==
  [stage |-> "done", transport |-> transport, route |-> route,
   audience_id |-> req.audience_id, persona_id |-> req.persona_id,
   question |-> req.question, history |-> req.history,
   selcall |-> selcall, gen |-> gen,
   status |-> answer.status, nsel |-> answer.nsel, ngen |-> answer.ngen,
   returned |-> answer.returned]

\* the group asks a client may send, with what the generation capability
\* answers to the calls made for them
GroupRequests ==
  {[audience_id |-> a, persona_id |-> None, question |-> q, history |-> h] :
     a \in AudienceIds, q \in QuestionBodies, h \in HistoryBodies}

DirectRequests ==
  {[audience_id |-> a, persona_id |-> pid, question |-> q, history |-> h] :
     a \in AudienceIds, pid \in PersonaIds, q \in QuestionBodies, h \in HistoryBodies}

GroupGenRuns(req, selcall) ==
  GenRuns(IF req.audience_id \in DOMAIN Catalog
          THEN ReplyCalls(Catalog[req.audience_id].personas, selcall) ELSE 0)

HandleIndexAskGroup ==
  /\ http.stage = "idle"
  /\ \E req \in GroupRequests, sc \in SelCalls :
       \E g \in GroupGenRuns(req, sc) :
         http' = Handled("index", "group", req, sc, g, IndexAskGroup(req, sc, g))
  /\ UNCHANGED <<engvars, conc, prompt>>

HandleIndexAskPersona ==
  /\ http.stage = "idle"
  /\ \E req \in DirectRequests, g \in GenRuns(1) :
       http' = Handled("index", "direct", req, NoSelCall, g, IndexAskPersona(req, g))
  /\ UNCHANGED <<engvars, conc, prompt>>

HandleApiAskGroup ==
  /\ http.stage = "idle"
  /\ \E req \in GroupRequests, sc \in SelCalls :
       \E g \in GroupGenRuns(req, sc) :
         http' = Handled("api", "group", req, sc, g, ApiAskGroup(req, sc, g))
  /\ UNCHANGED <<engvars, conc, prompt>>

HandleApiAskPersona ==
  /\ http.stage = "idle"
  /\ \E req \in DirectRequests, g \in GenRuns(1) :
       http' = Handled("api", "direct", req, NoSelCall, g, ApiAskPersona(req, g))
  /\ UNCHANGED <<engvars, conc, prompt>>

\* the answer is sent; the transport takes the next request
NextRequest ==
  /\ http.stage = "done"
  /\ http' = NoRequest
  /\ UNCHANGED <<engvars, conc, prompt>>

NextTransport ==
  \/ HandleIndexAskGroup
  \/ HandleIndexAskPersona
  \/ HandleApiAskGroup
  \/ HandleApiAskPersona
  \/ NextRequest

SpecTransport == InitTransport /\ [][NextTransport]_vars

----------------------------------------------------------------------------
(* Two ask requests handled at the same time (api.py runs its endpoints on  *)
(* a thread pool).  Each request runs ask_stateless on the engine its       *)
(* handler creates; the statements of the two runs interleave, one step per *)
(* statement that reads or writes a list or waits for the generation        *)
(* capability.  The list objects of both live in the one heap.              *)

Requests == {1, 2}

\* the questions and the reply texts of the two requests
ConcQuestions == <<"qa", "qb">>

ConcScripts == << <<"a1", "a2", "a3">>, <<"b1", "b2", "b3">> >>

\* the history in the body of request i for audience a, when it has one
ConcHistory(i, a) ==
  << ModeratorEntry(IF i = 1 THEN "pa" ELSE "pb"),
     PersonaEntry(Catalog[a].personas[1].id, PersonaName(Catalog[a].personas[1]),
                  IF i = 1 THEN "xa" ELSE "xb") >>

\* every request runs on the engine of the first one
EngineOfShared(i) == conc[1].eng

\* the engine request i runs on: the one its handler created
EngineOf(i) == conc[i].eng

\* the world of request i: the shared heap and its own engine and call
ReqWorld(i) ==
  [heap |-> heap, alloc |-> alloc, eng |-> EngineOf(i), exc |-> conc[i].exc,
   ngen |-> conc[i].ngen, nsel |-> conc[i].nsel, ret |-> conc[i].ret,
   rhist |-> conc[i].rhist, sel |-> conc[i].sel,
   question |-> conc[i].question, recent |-> conc[i].recent, msgs |-> conc[i].msgs,
   detail |-> NoDetail]

\* request i after a step that left the world w, at position pc of ask_stateless
\* and with k replies of the turn recorded
ReqAfter(i, w, pc, k) ==
  [conc[i] EXCEPT !.pc = pc, !.k = k, !.eng = w.eng, !.exc = w.exc, !.ngen = w.ngen,
                  !.nsel = w.nsel, !.ret = w.ret, !.rhist = w.rhist, !.sel = w.sel,
                  !.question = w.question, !.recent = w.recent, !.msgs = w.msgs]

\* the lists a request refers to: the history of its body, the transcript of
\* its engine while it runs, the history it returns
LiveRefs(r) ==
  ({r.history, r.rhist} \cup (IF r.pc \in {"start", "done"} THEN {} ELSE {r.eng.transcript}))
    \ {None}

\* the step of request i is done: the lists no request refers to are freed
Store(i, w, pc, k) ==
  \E c \in {[conc EXCEPT ![i] = ReqAfter(i, w, pc, k)]} :
    \E live \in {UNION {LiveRefs(c[j]) : j \in Requests}} :
      /\ conc' = c
      /\ alloc' = live
      /\ heap' = [r \in Refs |-> IF r \in live THEN w.heap[r] ELSE <<>>]

\* a request as its handler got it
NewRequest(i, a, h, sc) ==
  [pc |-> "start", audience_id |-> a, history |-> h, selcall |-> sc,
   ask |-> ConcQuestions[i], script |-> ConcScripts[i], k |-> 0,
   eng |-> NewEngine, exc |-> NoException, ngen |-> 0, nsel |-> 0, ret |-> <<>>,
   rhist |-> None, sel |-> NoSelection, question |-> "", recent |-> <<>>,
   msgs |-> <<>>]

\* two requests for the same audience; the history of request i, when it
\* has one, is the list object i
InitConcurrent ==
  /\ eng = NewEngine
  /\ last = NoCall
  /\ sess = NoSession
  /\ sel = NoSelectionRun
  /\ hist = None
  /\ http = NoRequest
  /\ prompt = NoPrompt
  /\ \E a \in DOMAIN Catalog, given \in SUBSET Requests :
       \E sc1 \in GoodSelCalls, sc2 \in GoodSelCalls :
         /\ alloc = given
         /\ heap = [r \in Refs |-> IF r \in given THEN ConcHistory(r, a) ELSE <<>>]
         /\ conc = [i \in Requests |->
                      NewRequest(i, a, IF i \in given THEN i ELSE None,
                                 IF i = 1 THEN sc1 ELSE sc2)]

\* engine = FocusGroupEngine()
CreateEngine(i) ==
  /\ conc[i].pc = "start"
  /\ \E w \in {NewList(ReqWorld(i), <<>>)} :
       Store(i, [w EXCEPT !.eng.transcript = NewRef(ReqWorld(i))], "load", 0)

\* self.load_audience(audience_id, config_path)
LoadStep(i) ==
  /\ conc[i].pc = "load"
  /\ \E w \in {load_audience(ReqWorld(i), conc[i].audience_id)} :
       Store(i, w, IF HistoryGiven(w, conc[i].history) THEN "rebuild" ELSE "ask", 0)

\* self._rebuild_state_from_history(history)
RebuildStep(i) ==
  /\ conc[i].pc = "rebuild"
  /\ \E w \in {rebuild_state_from_history(ReqWorld(i), conc[i].history)} :
       Store(i, w, "ask", 0)

\* ask: self.transcript.append of the moderator entry
ModeratorStep(i) ==
  /\ conc[i].pc = "ask"
  /\ \E w \in {ReqWorld(i)} :
       Store(i, [ListAppend(w, w.eng.transcript, ModeratorEntry(conc[i].ask))
                   EXCEPT !.question = conc[i].ask],
             "select", 0)

\* _select_responders: the prompt is built, the selection call answers, the
\* names are mapped
SelectStep(i) ==
  /\ conc[i].pc = "select"
  /\ \E w \in {ReqWorld(i)} :
       Store(i, [w EXCEPT !.nsel = @ + 1,
                          !.recent = recent_speakers(Transcript(w)).names,
                          !.sel = select_responders(w.eng.personas,
                                                    conc[i].selcall.text)],
             "generate", 0)

\* _generate_response for the next responder: the prompt is built and the
\* reply call answers
GenerateStep(i) ==
  /\ conc[i].pc = "generate"
  /\ conc[i].k < Len(conc[i].sel.ids)
  /\ \E w \in {generate_response(ReqWorld(i), conc[i].script[conc[i].k + 1])} :
       Store(i, w, "record", conc[i].k)

\* the reply is appended to the memory of the persona and to the transcript
RecordStep(i) ==
  /\ conc[i].pc = "record"
  /\ \E pid \in {conc[i].sel.ids[conc[i].k + 1]} :
       \E w \in {RecordReply(ReqWorld(i), pid, PersonaOfId(EngineOf(i).personas, pid),
                              conc[i].script[conc[i].k + 1])} :
         Store(i, w, "generate", conc[i].k + 1)

\* "history": self.transcript.copy(); the handler sends the answer and the
\* engine is dropped
ReturnStep(i) ==
  /\ conc[i].pc = "generate"
  /\ conc[i].k = Len(conc[i].sel.ids)
  /\ \E w \in {ReturnHistory(ReqWorld(i))} :
       Store(i, w, "done", conc[i].k)

NextConcurrent ==
  \E i \in Requests :
    /\ \/ CreateEngine(i)
       \/ LoadStep(i)
       \/ RebuildStep(i)
       \/ ModeratorStep(i)
       \/ SelectStep(i)
       \/ GenerateStep(i)
       \/ RecordStep(i)
       \/ ReturnStep(i)
    /\ UNCHANGED <<eng, hist, last, sess, sel, http, prompt>>

SpecConcurrent == InitConcurrent /\ [][NextConcurrent]_vars

----------------------------------------------------------------------------
(* The prompts of one turn.  The engine holds the transcript of a           *)
(* conversation so far, as a stateless call rebuilds it from the history of *)
(* its caller; the turn is a group ask, a direct ask, or one call of        *)
(* _generate_response on the engine as it stands.                           *)

\* who spoke an entry of the conversation so far: the moderator, the first
\* persona or the second persona of the audience
EntryKinds == {"moderator", "first", "second"}

PromptAudience == "premium_chocolate"

\* the text of the entry at a position of the conversation so far
PosText(i) == "t" \o ToString(i)

EntryOf(kind, i) ==
  IF kind = "moderator" THEN ModeratorEntry(PosText(i))
  ELSE LET persona == Catalog[PromptAudience].personas[IF kind = "first" THEN 1 ELSE 2]
       IN PersonaEntry(persona.id, PersonaName(persona), PosText(i))

\* the conversations so far
PromptTranscripts ==
  UNION {{[i \in 1..n |-> EntryOf(kinds[i], i)] : kinds \in [1..n -> EntryKinds]} :
           n \in 0..MaxCtx}

\* the ids a direct ask is made with; no persona has the last
PromptPersonaIds == {1, 2, 9}

\* what the turn sent to the generation capability and what it left
PromptRecord(op, before, w) ==
  [stage |-> "done", op |-> op, before |-> before, question |-> w.question,
   exc |-> w.exc, nsel |-> w.nsel, ngen |-> w.ngen,
   recent |-> w.recent, line |-> RecentSpeakersLine(w.recent),
   msgs |-> w.msgs, after |-> Transcript(w)]

InitPrompt ==
  /\ eng = NewEngine
  /\ last = NoCall
  /\ sess = NoSession
  /\ sel = NoSelectionRun
  /\ http = NoRequest
  /\ conc = NoRequests
  /\ hist = None
  /\ alloc = {1}
  /\ heap = [r \in Refs |-> <<>>]
  /\ \E t \in PromptTranscripts : prompt = [stage |-> "engine", before |-> t]

\* engine.ask_stateless(question, audience_id, history)
PromptAsk ==
  /\ prompt.stage = "engine"
  /\ \E question \in Questions, selcall \in SelCalls :
       \E gen \in GenRuns(ReplyCalls(Catalog[PromptAudience].personas, selcall)) :
         prompt' = PromptRecord("ask", prompt.before,
                     ask_stateless(RequestWorld(JList(prompt.before)), question,
                                   PromptAudience, 2, selcall, gen))
  /\ UNCHANGED <<heap, alloc, eng, hist, last, sess, sel, http, conc>>

\* engine.ask_persona_stateless(persona_id, question, audience_id, history)
PromptAskPersona ==
  /\ prompt.stage = "engine"
  /\ \E question \in Questions, pid \in PromptPersonaIds, gen \in GenRuns(1) :
       prompt' = PromptRecord("ask_persona", prompt.before,
                   ask_persona_stateless(RequestWorld(JList(prompt.before)), pid,
                                         question, PromptAudience, 2, gen))
  /\ UNCHANGED <<heap, alloc, eng, hist, last, sess, sel, http, conc>>

\* engine._generate_response(persona, question) on the engine as
\* load_audience and _rebuild_state_from_history leave it
PromptGenerate ==
  /\ prompt.stage = "engine"
  /\ \E question \in Questions, gen \in GenRuns(1) :
       prompt' = PromptRecord("generate_response", prompt.before,
                   Then(Prepare(RequestWorld(JList(prompt.before)), PromptAudience, 2),
                        LAMBDA w : generate_response([w EXCEPT !.question = question],
                                                     Head(gen))))
  /\ UNCHANGED <<heap, alloc, eng, hist, last, sess, sel, http, conc>>

NextPrompt == PromptAsk \/ PromptAskPersona \/ PromptGenerate

SpecPrompt == InitPrompt /\ [][NextPrompt]_vars

----------------------------------------------------------------------------
(* Properties *)

\* [e.text for e in entries if e.role == "persona" and e.persona_id == p]
RECURSIVE TextsOf(_, _)
TextsOf(entries, p) ==
  IF entries = <<>> THEN <<>>
  ELSE (IF Head(entries).role = "persona" /\ Head(entries).persona_id = p
        THEN <<Head(entries).text>> ELSE <<>>) \o TextsOf(Tail(entries), p)

\* the persona of the catalog order list personas that has id pid
PersonaOf(personas, pid) ==
  personas[CHOOSE i \in 1..Len(personas) :
             personas[i].id = pid /\ \A j \in 1..(i - 1) : personas[j].id # pid]

StatelessOps == {"ask_stateless", "ask_persona_stateless"}

\* the history the caller passed to the call of this step, as it was before
\* the call
GivenHistory == IF last'.history = None THEN <<>> ELSE heap[hist]

\* C1: after every call of a session, failed or not, the memory of every
\* loaded persona is the texts of that persona's entries of the transcript,
\* in transcript order.
C1_MemoryMatchesTranscript ==
  \A p \in Ids(eng.personas) :
    /\ p \in DOMAIN eng.persona_history
    /\ eng.persona_history[p] = TextsOf(heap[eng.transcript], p)

\* a group ask failed at its third reply call on personas that had spoken
C1_Witness ==
  /\ last.op = "ask"
  /\ last.exc = Failure
  /\ last.ngen = 3
  /\ \E p \in Ids(eng.personas) : Len(eng.persona_history[p]) >= 3

\* C2: a successful ask_stateless returns the given history H, then one
\* moderator entry with the question, then one persona entry per id the
\* selector resolved, and nothing else; the i-th response is the i-th of
\* these entries; H itself is as it was.
C2_GroupAskAppends ==
  [][(last'.op = "ask_stateless" /\ last'.exc = NoException) =>
       \A personas \in {Catalog[last'.audience_id].personas}, H \in {GivenHistory} :
         \A ids \in {select_responders(personas, last'.selcall.text).ids} :
           \A new \in {[i \in 1..Len(ids) |->
                          PersonaEntry(ids[i],
                                       PersonaName(PersonaOf(personas, ids[i])),
                                       last'.gen[i])]} :
             /\ last'.rhist # None
             /\ heap'[last'.rhist] = H \o <<ModeratorEntry(last'.question)>> \o new
             /\ Len(last'.ret) = Len(ids)
             /\ \A i \in 1..Len(ids) :
                  /\ last'.ret[i].persona_id = new[i].persona_id
                  /\ last'.ret[i].persona_name = new[i].persona_name
                  /\ last'.ret[i].text = new[i].text
             /\ last'.history # None => heap'[hist'] = heap[hist]
    ]_vars

\* a group ask on a history of three entries returned two replies
C2_Witness ==
  /\ last.op = "ask_stateless"
  /\ last.exc = NoException
  /\ last.history # None
  /\ Len(heap[hist]) = 3
  /\ Len(last.ret) = 2
  /\ Len(heap[last.rhist]) = 6

\* C3: at every point of a conversation run as a chain of stateless calls,
\* the engine holds after a turn the transcript and the memories that a
\* session holds after the same turns, and rebuilds from the caller's history
\* before the next turn the transcript and the memories of that session.
C3_ChainMatchesSession ==
  \A S \in {sess.heap[sess.eng.transcript]} :
    /\ last.op # "init" =>
         /\ heap[eng.transcript] = S
         /\ eng.persona_history = sess.eng.persona_history
    /\ \A w \in {Prepare(World, sess.eng.audience_id, hist)} :
         /\ w.exc = NoException
         /\ w.heap[w.eng.transcript] = S
         /\ w.eng.persona_history = sess.eng.persona_history

\* three turns, the last a direct ask, after which a persona has spoken in
\* each of them
C3_Witness ==
  /\ Turns = 3
  /\ last.op = "ask_persona_stateless"
  /\ last.exc = NoException
  /\ \E p \in Ids(sess.eng.personas) : Len(sess.eng.persona_history[p]) = 3
  /\ Len(heap[hist]) >= 7

\* C4: a direct ask for a persona id that is not in the loaded audience
\* raises the not-found error (ValueError) without any generation call,
\* leaves transcript and memory as the reconstruction left them, leaves the
\* caller's history as it was and returns no history.
C4_UnknownPersonaChangesNothing ==
  [][(/\ last'.op = "ask_persona_stateless"
      /\ last'.audience_id \in DOMAIN Catalog
      /\ last'.persona_id \notin Ids(Catalog[last'.audience_id].personas)) =>
       /\ last'.exc = "ValueError"
       /\ last'.ngen = 0
       /\ last'.nsel = 0
       /\ last'.rhist = None
       /\ last'.ret = <<>>
       /\ heap'[eng'.transcript] = GivenHistory
       /\ \A p \in Ids(eng'.personas) :
            eng'.persona_history[p] = TextsOf(GivenHistory, p)
       /\ hist' = hist
       /\ hist # None => heap'[hist'] = heap[hist]
    ]_vars

\* a direct ask for persona 9 on a history in which persona 2 spoke twice
C4_Witness ==
  /\ last.op = "ask_persona_stateless"
  /\ last.persona_id = 9
  /\ last.audience_id = "premium_chocolate"
  /\ last.history # None
  /\ last.exc = "ValueError"
  /\ Len(eng.persona_history[2]) = 2

\* C5: a successful direct ask to the loaded persona P extends the transcript
\* by a moderator entry with the text "[To <P.name>] <question>" and then one
\* persona entry for P; the memory of P grows by that reply and no other
\* memory changes.
C5_DirectAskFrame ==
  [][(last'.op = "ask_persona" /\ last'.exc = NoException) =>
       LET P == PersonaOf(eng.personas, last'.persona_id)
           name == PersonaName(P)
           text == last'.gen[1]
       IN /\ last'.persona_id \in Ids(eng.personas)
          /\ heap'[eng'.transcript] =
               heap[eng.transcript]
                 \o << ModeratorEntry("[To " \o name \o "] " \o last'.question),
                       PersonaEntry(P.id, name, text) >>
          /\ eng'.persona_history =
               [eng.persona_history EXCEPT ![P.id] = Append(@, text)]
          /\ last'.ret = <<Response(P.id, name, text)>>
          /\ last'.ngen = 1
    ]_vars

\* persona 1, Marcus, was asked directly after others had spoken
C5_Witness ==
  /\ last.op = "ask_persona"
  /\ last.exc = NoException
  /\ last.persona_id = 1
  /\ Len(heap[eng.transcript]) = 5
  /\ heap[eng.transcript][4] = ModeratorEntry("[To Marcus] q1")
  /\ \E p \in Ids(eng.personas) : p # 1 /\ eng.persona_history[p] # <<>>

\* [p.id for p in personas[:3]] written out
FirstThree(personas) ==
  IF Len(personas) = 0 THEN <<>>
  ELSE IF Len(personas) = 1 THEN <<personas[1].id>>
  ELSE IF Len(personas) = 2 THEN <<personas[1].id, personas[2].id>>
  ELSE <<personas[1].id, personas[2].id, personas[3].id>>

\* C6: for every text of the selection reply _select_responders raises
\* nothing and returns ids of loaded personas, at least one, or else exactly
\* the ids of the first three loaded personas (all, when fewer are loaded).
C6_SelectorNeverRaises ==
  sel.stage = "done" =>
    /\ sel.result.exc = NoException
    /\ \/ sel.result.ids = FirstThree(sel.personas)
       \/ /\ sel.result.ids # <<>>
          /\ \A i \in 1..Len(sel.result.ids) : sel.result.ids[i] \in Ids(sel.personas)

\* C7: a stateless call, returning or raising, leaves every list the caller
\* holds (the history it passed, a history returned earlier) as it was, and
\* the history it returns is a list of its own: neither the working
\* transcript nor the caller's list.
C7_CallerListsUntouched ==
  [][(last'.op \in StatelessOps) =>
       /\ hist' = hist
       /\ hist # None => heap'[hist'] = heap[hist]
       /\ hist' # None => hist' # eng'.transcript
       /\ last'.rhist # None =>
            /\ last'.rhist # eng'.transcript
            /\ last'.rhist # hist'
            /\ last'.rhist \in alloc'
    ]_vars

\* a call made on a history that an earlier call returned failed after the
\* engine had recorded a reply
C7_Witness ==
  /\ last.op = "ask_stateless"
  /\ last.history # None
  /\ last.exc = Failure
  /\ last.ngen = 2
  /\ Len(heap[hist]) = 3
  /\ heap[hist][1].role = "moderator"
  /\ Len(heap[eng.transcript]) = 5

\* C8: reconstruction from a history gives every loaded persona the texts of
\* its entries in history order; persona entries of an id that is not loaded
\* raise nothing, reach no memory and stay where they were in the working
\* transcript and in the history a call returns.
C8_Reconstruction ==
  [][/\ (last'.op = "rebuild") =>
          /\ last'.exc = NoException
          /\ heap'[eng'.transcript] = heap[hist]
          /\ DOMAIN eng'.persona_history = Ids(eng.personas)
          /\ \A p \in Ids(eng.personas) :
               eng'.persona_history[p] = TextsOf(heap[hist], p)
     /\ (last'.op \in StatelessOps /\ last'.exc = NoException) =>
          /\ SubSeq(heap'[last'.rhist], 1, Len(GivenHistory)) = GivenHistory
          /\ \A p \in Ids(eng'.personas) :
               SubSeq(eng'.persona_history[p], 1, Len(TextsOf(GivenHistory, p)))
                 = TextsOf(GivenHistory, p)
    ]_vars

\* a history with an entry of persona 9 and two of persona 2 was rebuilt on
\* an audience that has persona 2 and not persona 9
C8_Witness ==
  /\ last.op = "rebuild"
  /\ 2 \in Ids(eng.personas)
  /\ eng.persona_history[2] = <<"r2", "r1">>
  /\ \E i \in 1..Len(heap[eng.transcript]) :
       /\ heap[eng.transcript][i].role = "persona"
       /\ heap[eng.transcript][i].persona_id = 9

\* an engine on which nothing was done yet, holding the caller's list
FreshWorld ==
  [heap |-> [r \in Refs |-> IF r = hist THEN heap[r] ELSE <<>>],
   alloc |-> {1} \cup ({hist} \ {None}),
   eng |-> NewEngine, exc |-> NoException,
   ngen |-> 0, nsel |-> 0, ret |-> <<>>, rhist |-> None,
   sel |-> NoSelection,
   question |-> "", recent |-> <<>>, msgs |-> <<>>, detail |-> NoDetail]

\* the call of this step made on a new engine
OnFreshEngine ==
  LET h == IF last'.history = None THEN None ELSE hist
  IN IF last'.op = "ask_stateless"
     THEN ask_stateless(FreshWorld, last'.question, last'.audience_id, h,
                        last'.selcall, last'.gen)
     ELSE ask_persona_stateless(FreshWorld, last'.persona_id, last'.question,
                                last'.audience_id, h, last'.gen)

\* C9: whatever the engine did before, a stateless call returns (or raises)
\* what the same call returns on a new engine: the same exception, the same
\* responses, the same history.
C9_StatelessIgnoresPriorState ==
  [][(last'.op \in StatelessOps) =>
       \A f \in {OnFreshEngine} :
         /\ last'.exc = f.exc
         /\ last'.ret = (IF f.exc = NoException THEN f.ret ELSE <<>>)
         /\ (last'.rhist = None) <=> (f.rhist = None)
         /\ last'.rhist # None => heap'[last'.rhist] = f.heap[f.rhist]
         /\ last'.ngen = f.ngen
    ]_vars

\* a group ask without history on an engine that had returned the three
\* entry history the caller still holds
C9_Witness ==
  /\ last.op = "ask_stateless"
  /\ last.history = None
  /\ last.exc = NoException
  /\ hist # None
  /\ Len(heap[hist]) = 3
  /\ heap[hist][1].role = "moderator"
  /\ Len(heap[last.rhist]) = 3

\* C10: when the k-th reply call of a group ask fails, no further reply call
\* is made, the failure leaves ask, the engine keeps the moderator entry and
\* the k-1 replies of the turn in transcript and memory, and the caller gets
\* a failure and no history.
C10_FailureKeepsPartialTurn ==
  [][(last'.op = "ask_stateless" /\ last'.exc = Failure /\ last'.ngen >= 1) =>
       \A k \in {last'.ngen}, personas \in {Catalog[last'.audience_id].personas} :
         \A ids \in {select_responders(personas, last'.selcall.text).ids} :
           /\ k <= Len(ids)
           /\ k <= Len(last'.gen)
           /\ \A kept \in {[i \in 1..(k - 1) |->
                             PersonaEntry(ids[i],
                                          PersonaName(PersonaOf(personas, ids[i])),
                                          last'.gen[i])]} :
               /\ last'.gen[k] = Failure
               /\ heap'[eng'.transcript] =
                    GivenHistory \o <<ModeratorEntry(last'.question)>> \o kept
               /\ \A p \in Ids(personas) :
                    eng'.persona_history[p] = TextsOf(heap'[eng'.transcript], p)
               /\ last'.rhist = None
               /\ last'.ret = <<>>
               /\ GroupAskAnswer(last') = [status |-> 500, history |-> None]
               /\ hist # None => heap'[hist'] = heap[hist]
    ]_vars

\* the second of three reply calls failed
C10_Witness ==
  /\ last.op = "ask_stateless"
  /\ last.exc = Failure
  /\ last.ngen = 2
  /\ last.audience_id = "premium_chocolate"
  /\ last.selcall.text = <<Word>>
  /\ last.history # None
  /\ Len(heap[eng.transcript]) = Len(heap[hist]) + 2

\* C11: a group ask or a direct ask for a known audience whose body has no
\* question is answered with a client error (a 4xx status) by api.py and by
\* api/index.py, and no selection call and no reply call is made for it.
C11_MissingQuestionIsClientError ==
  (/\ http.stage = "done"
   /\ http.audience_id \in DOMAIN Catalog
   /\ http.question = JAbsent) =>
    /\ http.status \in 400..499
    /\ http.nsel = 0
    /\ http.ngen = 0
    /\ http.returned = <<>>

\* api/index.py refused a direct ask without question that came with a
\* history and named a persona of the audience
C11_Witness ==
  /\ http.stage = "done"
  /\ http.transport = "index"
  /\ http.route = "direct"
  /\ http.audience_id = "premium_chocolate"
  /\ http.persona_id = 1
  /\ http.question = JAbsent
  /\ http.history = JList(<<ModeratorEntry("q1"), PersonaEntry(1, "Marcus", "r1")>>)
  /\ http.status = 400

\* the history of a body that has not the transcript shape: it is no list,
\* or an entry of it is no record, or lacks role, or is a persona entry that
\* lacks persona_name or text
MalformedHistory(history) ==
  \/ history.json \in {"string", "number", "object"}
  \/ /\ history.json = "list"
     /\ \E i \in 1..Len(history.items) :
          \/ ~IsDict(history.items[i])
          \/ ~Has(history.items[i], "role")
          \/ /\ history.items[i].role = "persona"
             /\ ~(Has(history.items[i], "persona_name") /\ Has(history.items[i], "text"))

\* C12: a group ask or a direct ask with a question, for a known audience,
\* whose history has not the transcript shape is answered with a client error
\* (a 4xx status) by api.py and by api/index.py, and no selection call and no
\* reply call is made for it.
C12_MalformedHistoryIsClientError ==
  (/\ http.stage = "done"
   /\ http.audience_id \in DOMAIN Catalog
   /\ http.question = JString("q1")
   /\ MalformedHistory(http.history)) =>
    /\ http.status \in 400..499
    /\ http.nsel = 0
    /\ http.ngen = 0

\* xs is the beginning of ys
IsPrefix(xs, ys) == Len(xs) <= Len(ys) /\ xs = SubSeq(ys, 1, Len(xs))

\* the history request i was sent with
OwnHistory(i) ==
  IF conc[i].history = None THEN <<>> ELSE ConcHistory(i, conc[i].audience_id)

\* the transcript of the turn of request i on its own: its history, its
\* question, and the replies made for it, by the personas selected for it
OwnTranscript(i) ==
  LET personas == Catalog[conc[i].audience_id].personas
      ids == select_responders(personas, conc[i].selcall.text).ids
  IN OwnHistory(i) \o <<ModeratorEntry(ConcQuestions[i])>>
       \o [k \in 1..Len(ids) |->
            PersonaEntry(ids[k], PersonaName(PersonaOf(personas, ids[k])),
                         ConcScripts[i][k])]

\* C13: under every interleaving of the steps of two ask requests for the
\* same audience, the transcript of each request holds only its own history
\* and the entries of its own turn, in order; its persona memory is that of
\* its own transcript; the recent speakers and the recency context of every
\* prompt built for it are those of its own transcript; the list of its body
\* is not changed; and the history it returns is its own history followed
\* by its own turn.
C13_RequestsAreIsolated ==
  \A i \in Requests :
    \A own \in {OwnTranscript(i)}, given \in {OwnHistory(i)} :
      /\ conc[i].history # None => heap[conc[i].history] = given
      /\ conc[i].pc \notin {"start", "done"} =>
           /\ IsPrefix(heap[conc[i].eng.transcript], own)
           /\ \A p \in DOMAIN conc[i].eng.persona_history :
                conc[i].eng.persona_history[p] =
                  TextsOf(heap[conc[i].eng.transcript], p)
      /\ conc[i].nsel = 1 =>
           conc[i].recent =
             SpeakerNames(LastN(SubSeq(own, 1, Len(given) + 1), RecentWindow))
      /\ \A k \in 1..Len(conc[i].msgs) :
           conc[i].msgs[k] =
             UserMessage(RecentContext(LastN(SubSeq(own, 1, Len(given) + k),
                                             ContextWindow)),
                         ConcQuestions[i])
      /\ conc[i].pc = "done" =>
           /\ heap[conc[i].rhist] = own
           /\ conc[i].exc = NoException
           /\ \A j \in Requests \ {i} : conc[i].rhist \notin LiveRefs(conc[j])

\* both requests came with a history and are in the middle of their turns:
\* the first waits to record its second reply, the second its first
C13_Witness ==
  /\ conc # NoRequests
  /\ conc[1].history # None
  /\ conc[2].history # None
  /\ conc[1].pc = "record"
  /\ conc[1].k = 1
  /\ conc[2].pc = "record"
  /\ conc[2].k = 0

\* C14: load_audience with an audience id that is not in the catalog raises
\* the not-found error, whose message names the id asked for and lists every
\* id of the catalog once, and leaves the audience id, the category, the
\* personas, the transcript and the persona memory of the engine as they
\* were; with an id of the catalog it returns the personas in stored order,
\* one for each record of the catalog, the same record twice where it is
\* stored twice, and leaves the transcript and every persona's memory empty.
C14_LoadAudience ==
  [][last'.op = "load_audience" =>
       IF last'.audience_id \notin DOMAIN Catalog
       THEN /\ last'.exc = "ValueError"
            /\ last'.detail.audience_id = last'.audience_id
            /\ Len(last'.detail.available) = Cardinality(DOMAIN Catalog)
            /\ {last'.detail.available[i] : i \in DOMAIN last'.detail.available}
                 = DOMAIN Catalog
            /\ eng'.audience_id = eng.audience_id
            /\ eng'.category = eng.category
            /\ eng'.personas = eng.personas
            /\ heap'[eng'.transcript] = heap[eng.transcript]
            /\ eng'.persona_history = eng.persona_history
       ELSE /\ last'.exc = NoException
            /\ last'.ret = Catalog[last'.audience_id].personas
            /\ eng'.personas = Catalog[last'.audience_id].personas
            /\ eng'.audience_id = last'.audience_id
            /\ eng'.category = Catalog[last'.audience_id].category
            /\ heap'[eng'.transcript] = <<>>
            /\ DOMAIN eng'.persona_history = Ids(eng'.personas)
            /\ \A p \in DOMAIN eng'.persona_history :
                 eng'.persona_history[p] = <<>>]_vars

\* a load of an id that is not stored has failed on an engine that holds an
\* audience, a conversation and the memory of a persona
C14_Witness ==
  /\ last.op = "load_audience"
  /\ last.audience_id \notin DOMAIN Catalog
  /\ last.exc = "ValueError"
  /\ eng.personas # <<>>
  /\ Len(heap[eng.transcript]) >= 2
  /\ \E p \in DOMAIN eng.persona_history : eng.persona_history[p] # <<>>

\* the selection reply parses to a list of names: the match of the regular
\* expression is a JSON list and every element of it is a string
ParsesToNames(text) ==
  /\ RegexMatch(text) # <<>>
  /\ JsonValid(RegexMatch(text))
  /\ \A i \in 1..Len(JsonLoads(RegexMatch(text))) :
       JsonLoads(RegexMatch(text))[i].k = "str"

\* name is the full name or the first name of some persona
Resolves(personas, name) ==
  \E i \in 1..Len(personas) :
    PersonaName(personas[i]) = name \/ FirstName(personas[i]) = name

\* the id of the last persona, in catalog order, that has the name as its
\* full name or its first name
LastNamed(personas, name) ==
  LET holders == {i \in 1..Len(personas) :
                    PersonaName(personas[i]) = name \/ FirstName(personas[i]) = name}
  IN personas[CHOOSE i \in holders : \A o \in holders : o <= i].id

\* the image of the names of the reply under the lookup: the names no persona
\* has are dropped, the others replaced by the id they resolve to, in the
\* order of the reply
ImageOfNames(personas, text) ==
  LET names == JsonLoads(RegexMatch(text))
      kept == SelectSeq(names, LAMBDA n : Resolves(personas, n.v))
  IN [k \in 1..Len(kept) |-> LastNamed(personas, kept[k].v)]

\* C15 as stated: whenever the selection reply parses to a list of names,
\* the ids returned are the image of that list under the lookup by full name
\* and first name, unmatched names dropped, the order of the reply kept, a
\* shared key resolving to the last persona in catalog order.
C15_ImageOfNames ==
  (sel.stage = "done" /\ ParsesToNames(sel.text)) =>
    /\ sel.result.exc = NoException
    /\ sel.result.ids = ImageOfNames(sel.personas, sel.text)

\* C15 amended: whenever the selection reply parses to a list of names of
\* which at least one resolves, the ids returned are the image of that list
\* under the lookup by full name and first name, unmatched names dropped,
\* the order of the reply kept, a shared key resolving to the last persona
\* in catalog order.
C15_ImageOfNamesWhenSomeResolve ==
  (/\ sel.stage = "done"
   /\ ParsesToNames(sel.text)
   /\ ImageOfNames(sel.personas, sel.text) # <<>>) =>
    /\ sel.result.exc = NoException
    /\ sel.result.ids = ImageOfNames(sel.personas, sel.text)

\* the reply named an unknown name, then "Marcus", the full name of the first
\* persona and the first name of the fourth: the fourth is returned alone
C15_Witness ==
  /\ sel.stage = "done"
  /\ sel.personas = Catalog["premium_chocolate"].personas
  /\ ParsesToNames(sel.text)
  /\ JsonLoads(RegexMatch(sel.text)) = <<Str("Zoe"), Str("Marcus")>>
  /\ sel.result.ids = <<4>>

\* the persona names of the persona entries of a list of entries
NamesIn(entries) ==
  {entries[i].persona_name :
     i \in {j \in 1..Len(entries) : entries[j].role = "persona"}}

\* C16: the recent speakers named in the selection request of a group ask
\* are the distinct persona names of the persona entries among the last 6
\* entries of the transcript, which holds the question of the turn: each of
\* those names is listed, and listed once.
C16_RecentSpeakersDistinct ==
  (prompt.stage = "done" /\ prompt.op = "ask" /\ prompt.nsel = 1) =>
    \A window \in {LastN(Append(prompt.before, ModeratorEntry(prompt.question)),
                         RecentWindow)} :
      /\ {prompt.recent[i] : i \in 1..Len(prompt.recent)} = NamesIn(window)
      /\ \A i, j \in 1..Len(prompt.recent) :
           i # j => prompt.recent[i] # prompt.recent[j]

\* an entry as the recency context shows it
ContextLine(e) ==
  IF e.role = "moderator" THEN "Moderator: " \o e.text
  ELSE e.persona_name \o ": " \o e.text

\* the lines of the entries from position i on, in transcript order
RECURSIVE LinesFrom(_, _)
LinesFrom(entries, i) ==
  IF i > Len(entries) THEN ""
  ELSE "\n" \o ContextLine(entries[i]) \o LinesFrom(entries, i + 1)

\* the user message over a transcript that is not empty: its last 8 entries
\* rendered, then the question
MessageOver(entries, question) ==
  "[Recent conversation]"
    \o LinesFrom(entries, IF Len(entries) > 8 THEN Len(entries) - 7 ELSE 1)
    \o "\n\n---\n\nModerator's current question: " \o question

\* C17: the user message of every reply generation of ask and ask_persona
\* renders the last 8 entries of the working transcript as it stands at that
\* call (the conversation so far, the moderator entry of the turn and the
\* replies recorded earlier in the turn), in transcript order, each as
\* "Moderator: <text>" or "<persona_name>: <text>", before the question; a
\* generation over an empty transcript sends the bare question.
C17_RecencyContext ==
  prompt.stage = "done" =>
    /\ Len(prompt.msgs) = prompt.ngen
    /\ prompt.op \in {"ask", "ask_persona"} =>
         \A k \in 1..Len(prompt.msgs) :
           /\ Len(prompt.after) >= Len(prompt.before) + k
           /\ SubSeq(prompt.after, 1, Len(prompt.before)) = prompt.before
           /\ prompt.after[Len(prompt.before) + 1].role = "moderator"
           /\ prompt.msgs[k] =
                MessageOver(SubSeq(prompt.after, 1, Len(prompt.before) + k),
                            prompt.question)
    /\ prompt.op = "generate_response" =>
         \A k \in 1..Len(prompt.msgs) :
           prompt.msgs[k] = IF prompt.before = <<>> THEN prompt.question
                            ELSE MessageOver(prompt.before, prompt.question)

\* a group ask on a conversation of 8 entries made three reply generations:
\* the window of each left out entries of the conversation so far
C17_Witness ==
  /\ prompt.stage = "done"
  /\ prompt.op = "ask"
  /\ prompt.exc = NoException
  /\ Len(prompt.before) = 8
  /\ Len(prompt.msgs) = 3

\* C18: for every selection reply, on an audience whose personas have
\* distinct ids, the ids _select_responders returns name no persona more
\* than once, so that a group ask records at most one reply of each persona
\* in the turn.
C18_RespondersDistinct ==
  (/\ sel.stage = "done"
   /\ sel.result.exc = NoException
   /\ Cardinality(Ids(sel.personas)) = Len(sel.personas)) =>
    \A i, j \in 1..Len(sel.result.ids) :
      i # j => sel.result.ids[i] # sel.result.ids[j]

====
